---- MODULE Spec2Model ----
(***************************************************************************)
(* Model of the book store canister in                                     *)
(* src/icp_rust_boilerplate_backend/src/lib.rs: the identifier counter     *)
(* (ID_COUNTER), the stable map of serialized books (STORAGE) and the four *)
(* exposed handlers get_book, add_book, update_book and delete_book.       *)
(* Each handler has no await point, so one call is one atomic step.        *)
(* The canister clock read by time() is an input of the environment: it    *)
(* never goes back, and several calls may observe the same value.          *)
(* Spec explores the four handlers below the counter's largest value,      *)
(* SpecSteps follows add_book statement by statement for several pending   *)
(* invocations, SpecWrap lets the counter reach its largest value.         *)
(***************************************************************************)
EXTENDS Integers, Sequences, FiniteSets, TLC

\* ---- bounds of the model ------------------------------------------------
MaxAdds == 2      \* add_book is explored while the counter is below this
MaxTime == 1      \* the clock takes the values 0..MaxTime
IdBits == 2       \* width the u64 of the code is scaled to
MaxCallers == 2   \* add_book invocations that may be pending at once

Modulus == 2 ^ IdBits
Ids == 0 .. (MaxAdds - 1)
Callers == 1 .. MaxCallers
AllIds == 0 .. (Modulus - 1)

\* String values are byte sequences.  The payloads explored: the empty string
\* and two non-empty titles of different length, the empty string and one
\* non-empty author.
Titles == { << >>, <<100>>, <<100, 117>> }
Authors == { << >>, <<104>> }

\* struct BookPayload
BookPayload == [title : Titles, author : Authors]

\* Option<T> is a sequence of length 0 (None) or 1 (Some).
None == << >>
Some(x) == <<x>>

VARIABLES
  ID_COUNTER,   \* the value held by the IdCell
  STORAGE,      \* StableBTreeMap: key -> bytes of the stored Book
  now,          \* the value time() returns
  last,         \* the latest call and its response
  issued,       \* ids carried by the Ok responses of add_book, in order
  removed,      \* ids for which delete_book has answered Ok
  written,      \* per live id, the record of its latest Ok add_book/update_book
  calls         \* per invocation of add_book followed statement by statement:
                \* its position and its locals

vars == <<ID_COUNTER, STORAGE, now, last, issued, removed, written, calls>>

\* ---- Storable for Book ---------------------------------------------------
\* Variant: the author written before the title.
to_bytes_swapped(book) ==
  <<book.id, Len(book.author)>> \o book.author
    \o <<Len(book.title)>> \o book.title
    \o <<book.created_at>>
    \o (IF book.updated_at = None THEN <<0>> ELSE <<1, book.updated_at[1]>>)

\* Encode!: the fields one after the other, strings length-prefixed, the
\* option as a tag followed by its payload.
to_bytes(book) ==
  <<book.id, Len(book.title)>> \o book.title
    \o <<Len(book.author)>> \o book.author
    \o <<book.created_at>>
    \o (IF book.updated_at = None THEN <<0>> ELSE <<1, book.updated_at[1]>>)

\* Decode!: reads the fields back in the same order.
from_bytes(bytes) ==
  LET tl == bytes[2]
      al == bytes[3 + tl]
      p  == 4 + tl + al
  IN [id         |-> bytes[1],
      title      |-> SubSeq(bytes, 3, 2 + tl),
      author     |-> SubSeq(bytes, 4 + tl, 3 + tl + al),
      created_at |-> bytes[p],
      updated_at |-> IF bytes[p + 1] = 0 THEN None ELSE Some(bytes[p + 2])]

\* ---- responses -----------------------------------------------------------
Ok(book) == [kind |-> "Ok", book |-> book]
NotFound(text, id) == [kind |-> "NotFound", msg |-> <<text, id>>]
InvalidInput == [kind |-> "InvalidInput",
                 msg |-> "All fields must be provided and non-empty"]

\* ---- helpers of the handlers ---------------------------------------------
\* StableBTreeMap::get, decoding the stored bytes
storage_get(storage, id) ==
  IF id \in DOMAIN storage THEN Some(from_bytes(storage[id])) ELSE None

_get_book(id) == storage_get(STORAGE, id)

\* Variant: only the title is looked at.
is_empty_payload_title_only(payload) == Len(payload.title) = 0

\* Variant: && in place of ||.
is_empty_payload_both(payload) == Len(payload.title) = 0 /\ Len(payload.author) = 0

\* book.title.is_empty() || book.author.is_empty()
is_empty_payload(payload) == Len(payload.title) = 0 \/ Len(payload.author) = 0

\* Variant: the + 1 is missing.
next_counter_stuck(current_value) == current_value

\* Variant: the counter advances by two.
next_counter_by_two(current_value) == (current_value + 2) % Modulus

\* current_value + 1, in the width of the counter
next_counter(current_value) == (current_value + 1) % Modulus

\* Variant: the id is the value just stored.
cell_set_result_new(current_value, value) == value

\* Cell::set answers Ok with the value the cell held before
cell_set_result(current_value, value) == current_value

\* Variant: a new Book is born with updated_at set.
new_book_stamped(id, payload, t) ==
  [id |-> id, title |-> payload.title, author |-> payload.author,
   created_at |-> t, updated_at |-> Some(t)]

\* the Book add_book builds
new_book(id, payload, t) ==
  [id |-> id, title |-> payload.title, author |-> payload.author,
   created_at |-> t, updated_at |-> None]

\* Variant: created_at is stamped too.
updated_touching_created(book, payload, t) ==
  [book EXCEPT !.title = payload.title,
               !.author = payload.author,
               !.created_at = t,
               !.updated_at = Some(t)]

\* Variant: updated_at takes the creation time.
updated_with_created_at(book, payload, t) ==
  [book EXCEPT !.title = payload.title,
               !.author = payload.author,
               !.updated_at = Some(book.created_at)]

\* the three assignments update_book makes to the book it found
updated(book, payload, t) ==
  [book EXCEPT !.title = payload.title,
               !.author = payload.author,
               !.updated_at = Some(t)]

\* Variant: the key is the number of entries, not book.id.
do_insert_by_count(storage, book) ==
  [k \in (DOMAIN storage) \cup {Cardinality(DOMAIN storage)} |->
      IF k = Cardinality(DOMAIN storage) THEN to_bytes(book) ELSE storage[k]]

\* StableBTreeMap::insert(book.id, book.clone())
do_insert(storage, book) ==
  [k \in (DOMAIN storage) \cup {book.id} |->
      IF k = book.id THEN to_bytes(book) ELSE storage[k]]

\* Variant: every entry goes.
storage_remove_all(storage, id) == [k \in {} |-> storage[k]]

\* StableBTreeMap::remove
storage_remove(storage, id) == [k \in (DOMAIN storage) \ {id} |-> storage[k]]

\* the history kept of the Ok responses
record_written(book) ==
  written' = [k \in (DOMAIN written) \cup {book.id} |->
                IF k = book.id THEN book ELSE written[k]]

\* ---- the handlers --------------------------------------------------------
get_book_result(id) ==
  IF _get_book(id) # None
  THEN Ok(_get_book(id)[1])
  ELSE NotFound("a book with id={} not found", id)

get_book(id) ==
  /\ last' = [op |-> "get_book", id |-> id, result |-> get_book_result(id)]
  /\ UNCHANGED <<ID_COUNTER, STORAGE, now, issued, removed, written>>

\* Variant: the identifier is allocated before the payload is validated.
add_book_allocate_first(book) ==
  LET current_value == ID_COUNTER
      id == cell_set_result(current_value, next_counter(current_value))
      new == new_book(id, book, now)
  IN IF is_empty_payload(book)
     THEN /\ ID_COUNTER' = next_counter(current_value)
          /\ last' = [op |-> "add_book", payload |-> book,
                      result |-> InvalidInput]
          /\ UNCHANGED <<STORAGE, now, issued, removed, written>>
     ELSE /\ ID_COUNTER' = next_counter(current_value)
          /\ STORAGE' = do_insert(STORAGE, new)
          /\ last' = [op |-> "add_book", payload |-> book, result |-> Ok(new)]
          /\ issued' = Append(issued, new.id)
          /\ record_written(new)
          /\ UNCHANGED <<now, removed>>

add_book(book) ==
  IF is_empty_payload(book)
  THEN /\ last' = [op |-> "add_book", payload |-> book, result |-> InvalidInput]
       /\ UNCHANGED <<ID_COUNTER, STORAGE, now, issued, removed, written>>
  ELSE LET current_value == ID_COUNTER
           id == cell_set_result(current_value, next_counter(current_value))
           new == new_book(id, book, now)
       IN /\ ID_COUNTER' = next_counter(current_value)
          /\ STORAGE' = do_insert(STORAGE, new)
          /\ last' = [op |-> "add_book", payload |-> book, result |-> Ok(new)]
          /\ issued' = Append(issued, new.id)
          /\ record_written(new)
          /\ UNCHANGED <<now, removed>>

\* Variant: the lookup comes before the validation.
update_book_lookup_first(id, payload) ==
  IF storage_get(STORAGE, id) = None
  THEN /\ last' = [op |-> "update_book", id |-> id, payload |-> payload,
                   result |-> NotFound(
                     "couldn't update a book with id={}. book not found", id)]
       /\ UNCHANGED <<ID_COUNTER, STORAGE, now, issued, removed, written>>
  ELSE IF is_empty_payload(payload)
  THEN /\ last' = [op |-> "update_book", id |-> id, payload |-> payload,
                   result |-> InvalidInput]
       /\ UNCHANGED <<ID_COUNTER, STORAGE, now, issued, removed, written>>
  ELSE LET found == storage_get(STORAGE, id)[1]
           book == updated(found, payload, now)
       IN /\ STORAGE' = do_insert(STORAGE, book)
          /\ last' = [op |-> "update_book", id |-> id, payload |-> payload,
                      found |-> found, result |-> Ok(book)]
          /\ record_written(book)
          /\ UNCHANGED <<ID_COUNTER, now, issued, removed>>

update_book(id, payload) ==
  IF is_empty_payload(payload)
  THEN /\ last' = [op |-> "update_book", id |-> id, payload |-> payload,
                   result |-> InvalidInput]
       /\ UNCHANGED <<ID_COUNTER, STORAGE, now, issued, removed, written>>
  ELSE IF storage_get(STORAGE, id) # None
  THEN LET found == storage_get(STORAGE, id)[1]
           book == updated(found, payload, now)
       IN /\ STORAGE' = do_insert(STORAGE, book)
          /\ last' = [op |-> "update_book", id |-> id, payload |-> payload,
                      found |-> found, result |-> Ok(book)]
          /\ record_written(book)
          /\ UNCHANGED <<ID_COUNTER, now, issued, removed>>
  ELSE /\ last' = [op |-> "update_book", id |-> id, payload |-> payload,
                   result |-> NotFound(
                     "couldn't update a book with id={}. book not found", id)]
       /\ UNCHANGED <<ID_COUNTER, STORAGE, now, issued, removed, written>>

\* Variant: a removal hands the latest identifier back to the counter.
delete_book_rollback(id) ==
  IF id \in DOMAIN STORAGE
  THEN /\ STORAGE' = storage_remove(STORAGE, id)
       /\ ID_COUNTER' = IF ID_COUNTER > 0 THEN ID_COUNTER - 1 ELSE 0
       /\ last' = [op |-> "delete_book", id |-> id,
                   result |-> Ok(from_bytes(STORAGE[id]))]
       /\ removed' = removed \cup {id}
       /\ written' = [k \in (DOMAIN written) \ {id} |-> written[k]]
       /\ UNCHANGED <<now, issued>>
  ELSE /\ last' = [op |-> "delete_book", id |-> id,
                   result |-> NotFound(
                     "couldn't delete a book with id={}. book not found.", id)]
       /\ UNCHANGED <<ID_COUNTER, STORAGE, now, issued, removed, written>>

delete_book(id) ==
  IF id \in DOMAIN STORAGE
  THEN /\ STORAGE' = storage_remove(STORAGE, id)
       /\ last' = [op |-> "delete_book", id |-> id,
                   result |-> Ok(from_bytes(STORAGE[id]))]
       /\ removed' = removed \cup {id}
       /\ written' = [k \in (DOMAIN written) \ {id} |-> written[k]]
       /\ UNCHANGED <<ID_COUNTER, now, issued>>
  ELSE /\ last' = [op |-> "delete_book", id |-> id,
                   result |-> NotFound(
                     "couldn't delete a book with id={}. book not found.", id)]
       /\ UNCHANGED <<ID_COUNTER, STORAGE, now, issued, removed, written>>

\* current_value + 1 at the largest value of the counter, in a build with
\* overflow checks: the addition panics, the call traps before any write and
\* the canister keeps the state it had; the caller gets no Result.
add_book_overflow_panic(book) ==
  /\ ~is_empty_payload(book)
  /\ ID_COUNTER = Modulus - 1
  /\ last' = [op |-> "add_book", payload |-> book,
              result |-> [kind |-> "Trap",
                          msg |-> "attempt to add with overflow"]]
  /\ UNCHANGED <<ID_COUNTER, STORAGE, now, issued, removed, written>>

\* ---- add_book, one statement at a time ------------------------------------
\* An invocation that is not running; ret keeps the id it returned last.
Idle(ret) ==
  [pc |-> "idle", book |-> None, current_value |-> None, id |-> None,
   ret |-> ret]

\* Variant: an invocation may start while another one is under way.
can_start_any(i) == TRUE

\* add_book is a synchronous update method: the canister runs one message
\* at a time and add_book never awaits, so an invocation starts only when
\* no other one is under way.
can_start(i) == \A j \in Callers \ {i} : calls[j].pc = "idle"

\* entry of add_book
add_book_begin(i, book) ==
  /\ calls[i].pc = "idle"
  /\ can_start(i)
  /\ calls' = [calls EXCEPT ![i].pc = "validate", ![i].book = Some(book)]
  /\ UNCHANGED <<ID_COUNTER, STORAGE, now, last, issued, removed, written>>

\* the validation and its early return
add_book_validate(i) ==
  /\ calls[i].pc = "validate"
  /\ IF is_empty_payload(calls[i].book[1])
     THEN /\ last' = [op |-> "add_book", payload |-> calls[i].book[1],
                      result |-> InvalidInput]
          /\ calls' = [calls EXCEPT ![i] = Idle(calls[i].ret)]
     ELSE /\ calls' = [calls EXCEPT ![i].pc = "read"]
          /\ UNCHANGED last
  /\ UNCHANGED <<ID_COUNTER, STORAGE, now, issued, removed, written>>

\* let current_value = *counter.borrow().get();
add_book_read(i) ==
  /\ calls[i].pc = "read"
  /\ calls' = [calls EXCEPT ![i].pc = "set",
                            ![i].current_value = Some(ID_COUNTER)]
  /\ UNCHANGED <<ID_COUNTER, STORAGE, now, last, issued, removed, written>>

\* counter.borrow_mut().set(current_value + 1), whose result is the id
add_book_set(i) ==
  /\ calls[i].pc = "set"
  /\ LET value == next_counter(calls[i].current_value[1])
     IN /\ ID_COUNTER' = value
        /\ calls' = [calls EXCEPT
                       ![i].pc = "insert",
                       ![i].id = Some(cell_set_result(ID_COUNTER, value))]
  /\ UNCHANGED <<STORAGE, now, last, issued, removed, written>>

\* the Book literal, do_insert and Ok(book)
add_book_insert(i) ==
  /\ calls[i].pc = "insert"
  /\ LET new == new_book(calls[i].id[1], calls[i].book[1], now)
     IN /\ STORAGE' = do_insert(STORAGE, new)
        /\ last' = [op |-> "add_book", payload |-> calls[i].book[1],
                    result |-> Ok(new)]
        /\ issued' = Append(issued, new.id)
        /\ record_written(new)
        /\ calls' = [calls EXCEPT ![i] = Idle(Some(new.id))]
  /\ UNCHANGED <<ID_COUNTER, now, removed>>

\* The canister clock moves on between two calls.
Tick ==
  /\ now < MaxTime
  /\ now' = now + 1
  /\ UNCHANGED <<ID_COUNTER, STORAGE, last, issued, removed, written>>

\* The clock is constant within a call.
StepsTick ==
  /\ \A i \in Callers : calls[i].pc = "idle"
  /\ Tick
  /\ UNCHANGED calls

\* ---- specification -------------------------------------------------------
Init ==
  /\ ID_COUNTER = 0
  /\ STORAGE = << >>
  /\ now = 0
  /\ last = [op |-> "init"]
  /\ issued = << >>
  /\ removed = {}
  /\ written = << >>
  /\ calls = [i \in Callers |-> Idle(None)]

\* One call is one step.
GetStep == \E id \in Ids : get_book(id) /\ UNCHANGED calls
AddStep == \E book \in BookPayload :
             /\ is_empty_payload(book) \/ ID_COUNTER < MaxAdds
             /\ add_book(book)
             /\ UNCHANGED calls
UpdateStep == \E id \in Ids : \E payload \in BookPayload :
                update_book(id, payload) /\ UNCHANGED calls
DeleteStep == \E id \in Ids : delete_book(id) /\ UNCHANGED calls
TickStep == Tick /\ UNCHANGED calls

Next == GetStep \/ AddStep \/ UpdateStep \/ DeleteStep \/ TickStep

Spec == Init /\ [][Next]_vars

\* add_book statement by statement, for several pending invocations.
StepsNext ==
  \/ \E i \in Callers : \E book \in BookPayload :
        /\ is_empty_payload(book) \/ ID_COUNTER < MaxAdds
        /\ add_book_begin(i, book)
  \/ \E i \in Callers : add_book_validate(i)
  \/ \E i \in Callers : add_book_read(i)
  \/ \E i \in Callers : add_book_set(i)
  \/ \E i \in Callers : add_book_insert(i)
  \/ StepsTick

SpecSteps == Init /\ [][StepsNext]_vars

\* The calls that create, read and remove records, with the counter free to
\* reach its largest value; there current_value + 1 wraps to 0 (no overflow
\* checks, the release profile) or panics (overflow checks).  The run is
\* followed through one turn of the counter.
WrapGetStep == \E id \in AllIds : get_book(id) /\ UNCHANGED calls
WrapAddStep == \E book \in BookPayload :
                 /\ Len(issued) <= Modulus
                 /\ add_book(book)
                 /\ UNCHANGED calls
WrapPanicStep == \E book \in BookPayload :
                   add_book_overflow_panic(book) /\ UNCHANGED calls
WrapDeleteStep == \E id \in AllIds : delete_book(id) /\ UNCHANGED calls

WrapNext ==
  WrapGetStep \/ WrapAddStep \/ WrapPanicStep \/ WrapDeleteStep \/ TickStep

SpecWrap == Init /\ [][WrapNext]_vars

\* ---- properties ----------------------------------------------------------
\* A step that is a call of handler op (the clock does not move in a call).
Called(op) == now' = now /\ last'.op = op
\* The state right after a call of handler op that answered with kind.
Answered(op, kind) == last.op = op /\ last.result.kind = kind

\* A payload one of whose two fields is the empty string.
HasEmptyField(payload) == payload.title = << >> \/ payload.author = << >>

\* C1: from a fresh store the k-th successful add_book returns id k-1,
\* whatever failed adds, gets, updates and deletes happen in between.
C1_KthAddReturnsKMinus1 == \A k \in 1 .. Len(issued) : issued[k] = k - 1

C1_Witness ==
  /\ Answered("add_book", "Ok")
  /\ Len(issued) >= 2
  /\ removed # {}

\* C2: an identifier is never reused: after every step no record is present
\* at an id delete_book has removed (get_book on it answers NotFound), no two
\* successful add_book calls have returned the same id, and a delete_book
\* step leaves the counter where it was.
C2_NeverReused ==
  [][ /\ \A id \in removed' :
           /\ id \notin DOMAIN STORAGE'
           /\ LET r == get_book_result(id)' IN r.kind = "NotFound"
      /\ \A i, j \in 1 .. Len(issued') : i # j => issued'[i] # issued'[j]
      /\ Called("delete_book") => ID_COUNTER' = ID_COUNTER ]_vars

C2_Witness ==
  /\ Answered("add_book", "Ok")
  /\ \E id \in removed : id < last.result.book.id
  /\ last.result.book.id \in DOMAIN STORAGE

\* C3: a get_book of the id that the add_book just before it returned
\* answers Ok with the record add_book returned, whose updated_at is absent.
C3_AddThenGet ==
  [][ ( /\ Answered("add_book", "Ok")
        /\ Called("get_book")
        /\ last'.id = last.result.book.id )
      => /\ last'.result = Ok(last.result.book)
         /\ last.result.book.updated_at = None ]_vars

C3_Witness ==
  /\ Answered("add_book", "Ok")
  /\ Len(last.payload.title) # Len(last.payload.author)
  /\ get_book_result(last.result.book.id) = Ok(last.result.book)

\* C4: add_book with an empty title or an empty author answers InvalidInput
\* and leaves counter and store as they were; the successful add_book right
\* after a failed one gets the id it would have got without the failed call,
\* the number of successful add_book calls before it.
C4_InvalidAddChangesNothing ==
  [][ /\ (Called("add_book") /\ HasEmptyField(last'.payload))
           => /\ last'.result = InvalidInput
              /\ ID_COUNTER' = ID_COUNTER
              /\ STORAGE' = STORAGE
      /\ ( /\ Answered("add_book", "InvalidInput")
           /\ Called("add_book")
           /\ last'.result.kind = "Ok" )
           => last'.result.book.id = Len(issued) ]_vars

C4_Witness ==
  /\ Answered("add_book", "InvalidInput")
  /\ Len(last.payload.title) > 0
  /\ ID_COUNTER > 0
  /\ DOMAIN STORAGE # {}

\* C5: update_book with an empty title or an empty author answers
\* InvalidInput for every id, absent ids included, and leaves counter and
\* store as they were.
C5_InvalidUpdateBeforeLookup ==
  [][ (Called("update_book") /\ HasEmptyField(last'.payload))
        => /\ last'.result = InvalidInput
           /\ ID_COUNTER' = ID_COUNTER
           /\ STORAGE' = STORAGE ]_vars

C5_Witness ==
  /\ Answered("update_book", "InvalidInput")
  /\ last.id \notin DOMAIN STORAGE
  /\ last.id >= ID_COUNTER

\* C6: update_book on a present id with a valid payload answers Ok with the
\* record it stores under that id: title and author of the payload,
\* updated_at the current time, id and created_at of the record stored
\* before; the keys of the store and the records at other keys do not change.
C6_UpdateReplacesInPlace ==
  [][ ( /\ Called("update_book")
        /\ last'.id \in DOMAIN STORAGE
        /\ ~HasEmptyField(last'.payload) )
      => /\ last'.result.kind = "Ok"
         /\ LET id == last'.id
                before == storage_get(STORAGE, id)[1]
                new == last'.result.book
            IN /\ storage_get(STORAGE', id) = Some(new)
               /\ new.title = last'.payload.title
               /\ new.author = last'.payload.author
               /\ new.updated_at = Some(now)
               /\ new.id = id
               /\ new.id = before.id
               /\ new.created_at = before.created_at
               /\ DOMAIN STORAGE' = DOMAIN STORAGE
               /\ \A k \in DOMAIN STORAGE \ {id} : STORAGE'[k] = STORAGE[k] ]_vars

C6_Witness ==
  /\ Answered("update_book", "Ok")
  /\ Cardinality(DOMAIN STORAGE) >= 2
  /\ last.found.title # last.result.book.title
  /\ last.result.book.created_at < last.result.book.updated_at[1]

\* C7 as stated: a successful update_book of a record that an earlier
\* update_book has stamped gives updated_at a value different from that stamp.
C7_SecondUpdateNewValue ==
  (Answered("update_book", "Ok") /\ last.found.updated_at # None)
    => last.result.book.updated_at # last.found.updated_at

\* C7 amended: a successful update_book of a record that an earlier
\* update_book has stamped sets updated_at to the time of this call, which is
\* never earlier than the stamp it replaces (and is the same value when the
\* clock has not moved since).
C7_SecondUpdateStampsCallTime ==
  [][ ( /\ Called("update_book")
        /\ last'.result.kind = "Ok"
        /\ last'.found.updated_at # None )
      => /\ last'.result.book.updated_at = Some(now)
         /\ last'.found.updated_at[1] <= now
         /\ (last'.result.book.updated_at # last'.found.updated_at
               <=> last'.found.updated_at[1] < now) ]_vars

C7_Witness ==
  /\ Answered("update_book", "Ok")
  /\ last.found.updated_at # None
  /\ last.result.book.updated_at = last.found.updated_at

\* C8: delete_book on a present id answers Ok with the record stored there,
\* the one the latest successful add_book or update_book of that id returned,
\* removes that entry and no other; a get_book or a delete_book of the same
\* id right after it answers NotFound.
C8_DeleteRemovesExactlyOne ==
  [][ /\ (Called("delete_book") /\ last'.id \in DOMAIN STORAGE)
           => /\ last'.result = Ok(storage_get(STORAGE, last'.id)[1])
              /\ last'.result = Ok(written[last'.id])
              /\ DOMAIN STORAGE' = DOMAIN STORAGE \ {last'.id}
              /\ \A k \in DOMAIN STORAGE' : STORAGE'[k] = STORAGE[k]
              /\ storage_get(STORAGE', last'.id) = None
      /\ ( /\ Answered("delete_book", "Ok")
           /\ Called("get_book") \/ Called("delete_book")
           /\ last'.id = last.id )
           => last'.result.kind = "NotFound" ]_vars

C8_Witness ==
  /\ Answered("delete_book", "Ok")
  /\ last.result.book.updated_at # None
  /\ DOMAIN STORAGE # {}

\* C9: every key of the store is below the counter, and get_book,
\* update_book with a valid payload and delete_book on an id at or above the
\* counter answer NotFound.
C9_KeysBelowCounter ==
  [][ /\ \A k \in DOMAIN STORAGE' : k < ID_COUNTER'
      /\ ( /\ Called("get_book") \/ Called("delete_book")
           /\ last'.id >= ID_COUNTER )
           => last'.result.kind = "NotFound"
      /\ ( /\ Called("update_book")
           /\ ~HasEmptyField(last'.payload)
           /\ last'.id >= ID_COUNTER )
           => last'.result.kind = "NotFound" ]_vars

C9_Witness ==
  /\ Answered("get_book", "NotFound")
  /\ last.id >= ID_COUNTER
  /\ DOMAIN STORAGE # {}

C11_ErrorsChangeNothing ==
  [][ /\ ( /\ now' = now
           /\ last'.op \in {"get_book", "add_book", "update_book", "delete_book"}
           /\ last'.result.kind \in {"NotFound", "InvalidInput"} )
           => (ID_COUNTER' = ID_COUNTER /\ STORAGE' = STORAGE)
      /\ Called("get_book")
           => (ID_COUNTER' = ID_COUNTER /\ STORAGE' = STORAGE) ]_vars

C11_Witness ==
  /\ Answered("delete_book", "NotFound")
  /\ last.id < ID_COUNTER
  /\ DOMAIN STORAGE # {}

\* C12: every record in the store carries the key it is stored under as its
\* id, and a non-empty title and a non-empty author.
C12_StoredRecordsWellFormed ==
  \A k \in DOMAIN STORAGE :
    LET book == from_bytes(STORAGE[k])
    IN /\ book.id = k
       /\ book.title # << >>
       /\ book.author # << >>

C12_Witness ==
  /\ DOMAIN STORAGE # {}
  /\ removed # {}
  /\ \E k \in DOMAIN STORAGE : from_bytes(STORAGE[k]).updated_at # None

\* C13: a successful add_book raises the counter by exactly 1 and no other
\* call changes it; the counter is the number of successful add_book calls
\* so far and never decreases.
C13_CounterCountsAdds ==
  [][ /\ (Called("add_book") /\ last'.result.kind = "Ok")
           => ID_COUNTER' = ID_COUNTER + 1
      /\ ~(Called("add_book") /\ last'.result.kind = "Ok")
           => ID_COUNTER' = ID_COUNTER
      /\ ID_COUNTER' = Len(issued')
      /\ ID_COUNTER' >= ID_COUNTER ]_vars

C13_Witness ==
  /\ ID_COUNTER >= 2
  /\ ID_COUNTER = Len(issued)
  /\ Answered("update_book", "Ok")
  /\ removed # {}

\* C15: while a record stays present its created_at does not change and its
\* updated_at changes only in a successful update_book of its id, to the time
\* of that call; add_book stores the created_at it returned with updated_at
\* absent.
C15_Timestamps ==
  [][ /\ \A k \in (DOMAIN STORAGE) \cap (DOMAIN STORAGE') :
           LET before == from_bytes(STORAGE[k])
               after == from_bytes(STORAGE'[k])
           IN /\ after.created_at = before.created_at
              /\ IF Called("update_book") /\ last'.result.kind = "Ok"
                      /\ last'.id = k
                 THEN after.updated_at = Some(now)
                 ELSE after.updated_at = before.updated_at
      /\ (Called("add_book") /\ last'.result.kind = "Ok")
           => LET stored == storage_get(STORAGE', last'.result.book.id)[1]
              IN /\ stored.created_at = last'.result.book.created_at
                 /\ stored.created_at = now
                 /\ stored.updated_at = None ]_vars

C15_Witness ==
  /\ Answered("update_book", "Ok")
  /\ last.found.updated_at # None
  /\ last.found.updated_at[1] < last.result.book.updated_at[1]
  /\ last.result.book.created_at < last.result.book.updated_at[1]
  /\ \E k \in DOMAIN STORAGE : from_bytes(STORAGE[k]).updated_at = None

\* C14: with add_book followed statement by statement, no two invocations
\* hold the same value read from the counter or the same allocated id, an
\* allocated id is not yet a key of the store, the ids returned are pairwise
\* different, and the counter is the number of allocations made.
C14_AllocationAtomic ==
  /\ \A i, j \in Callers :
       i # j =>
         /\ (calls[i].current_value # None /\ calls[j].current_value # None)
              => calls[i].current_value # calls[j].current_value
         /\ (calls[i].id # None /\ calls[j].id # None)
              => calls[i].id # calls[j].id
  /\ \A i \in Callers :
       calls[i].id # None => calls[i].id[1] \notin DOMAIN STORAGE
  /\ \A a, b \in 1 .. Len(issued) : a # b => issued[a] # issued[b]
  /\ ID_COUNTER
       = Len(issued) + Cardinality({i \in Callers : calls[i].pc = "insert"})

C14_Witness ==
  /\ \A i \in Callers : calls[i].ret # None
  /\ \E i, j \in Callers : calls[i].ret # calls[j].ret
  /\ \E i \in Callers : calls[i].pc = "validate"

\* C16: an add_book that finds the counter at its largest value does not
\* leave the counter at 0, and no add_book returns an id that an earlier
\* add_book returned or that is the key of a record still in the store.
C16_UniqueAtUpperBound ==
  [][ (Called("add_book") /\ last'.result.kind = "Ok")
      => /\ ID_COUNTER = Modulus - 1 => ID_COUNTER' # 0
         /\ \A k \in 1 .. Len(issued) : issued[k] # last'.result.book.id
         /\ last'.result.book.id \notin DOMAIN STORAGE ]_vars
====
